---------------------------- MODULE Spec2Model ----------------------------
(***************************************************************************)
(* Model of the request-logging handler of go-simple-web-server            *)
(* (package apachelog: record, handler.ServeHTTP, getIP, getPort) and of    *)
(* the way main shares one handler and one output sink between listeners.  *)
(*                                                                         *)
(* Strings that the code parses (RemoteAddr, Host) are sequences of        *)
(* one-character strings, so that net.SplitHostPort is computed and not    *)
(* assumed.                                                                *)
(***************************************************************************)
EXTENDS Integers, Sequences, FiniteSets, TLC

(* ------------------------------ bounds -------------------------------- *)

\* number of requests that can be in flight through the one handler
NumReqs == 2
\* calls an inner handler makes on the proxy during one request (Spec)
MaxCalls == 3
\* calls an inner handler makes during one request when requests run concurrently
MaxCallsConc == 1
\* longest byte slice an inner handler passes to Write
MaxWrite == 2
\* longest Host header drawn for the port/address helpers
MaxHostLen == 4
\* longest peer address (RemoteAddr) drawn for getIP
MaxAddrLen == 5
\* ports given with -p and with -sp
NumHTTPPorts == 1
NumHTTPSPorts == 1

\* tempFilename: the loop's limit on creation attempts
MaxAttempts == 10000
\* tempFilename: the number of conflicts after which it reseeds
ReseedAfter == 10

\* net/http StatusOK
StatusOK == 200

Reqs == 1..NumReqs

\* proxy operations an inner handler can perform
WriteHeaderOps == {[op |-> "WriteHeader", arg |-> s] : s \in {404, 500}}
WriteOps == {[op |-> "Write", arg |-> p] : p \in 1..MaxWrite}
AllOps == WriteHeaderOps \cup WriteOps
ConcOps == {[op |-> "WriteHeader", arg |-> 404], [op |-> "Write", arg |-> 1]}

(* ------------------------ strings and parsing ------------------------- *)

HostAlphabet == {"a", "8", ":", "[", "]"}

RECURSIVE StringsUpTo(_)
StringsUpTo(n) ==
    IF n = 0 THEN {<<>>}
    ELSE LET shorter == StringsUpTo(n - 1)
         IN  shorter \cup {Append(s, c) : s \in {t \in shorter : Len(t) = n - 1}, c \in HostAlphabet}

\* strings.Contains(s, c) for a one-character c
Contains(s, c) == \E k \in 1..Len(s) : s[k] = c

\* index (from 1) of the first c in s, 0 when there is none
IndexByte(s, c) ==
    IF Contains(s, c)
    THEN CHOOSE k \in 1..Len(s) : s[k] = c /\ \A m \in 1..(k - 1) : s[m] # c
    ELSE 0

\* index (from 1) of the last c in s, 0 when there is none
LastIndexByte(s, c) ==
    IF Contains(s, c)
    THEN CHOOSE k \in 1..Len(s) : s[k] = c /\ \A m \in (k + 1)..Len(s) : s[m] # c
    ELSE 0

AddrErr == [err |-> TRUE, host |-> <<>>, port |-> <<>>]

\* net.SplitHostPort of the Go standard library, as getIP and getPort call it
SplitHostPort(hostport) ==
    LET i == LastIndexByte(hostport, ":")
        n == Len(hostport)
    IN  IF i = 0 THEN AddrErr
        ELSE IF hostport[1] = "["
        THEN LET end == IndexByte(hostport, "]")
             IN  IF end = 0 THEN AddrErr
                 ELSE IF end = n THEN AddrErr
                 ELSE IF end + 1 # i THEN AddrErr
                 ELSE IF Contains(SubSeq(hostport, 2, n), "[") THEN AddrErr
                 ELSE IF Contains(SubSeq(hostport, end + 1, n), "]") THEN AddrErr
                 ELSE [err |-> FALSE,
                       host |-> SubSeq(hostport, 2, end - 1),
                       port |-> SubSeq(hostport, i + 1, n)]
        ELSE LET host == SubSeq(hostport, 1, i - 1)
             IN  IF Contains(host, ":") THEN AddrErr
                 ELSE IF Contains(hostport, "[") THEN AddrErr
                 ELSE IF Contains(hostport, "]") THEN AddrErr
                 ELSE [err |-> FALSE,
                       host |-> host,
                       port |-> SubSeq(hostport, i + 1, n)]

Port80 == <<"8", "0">>
Port443 == <<"4", "4", "3">>

\* a getIP that returns the split host as it is
getIPNoBrackets(remoteAddr) ==
    LET s == SplitHostPort(remoteAddr)
    IN  IF s.err THEN remoteAddr ELSE s.host

\* getIP(remoteAddr)
getIP(remoteAddr) ==
    LET s == SplitHostPort(remoteAddr)
    IN  IF s.err THEN remoteAddr
        ELSE IF Contains(s.host, ":") /\ s.host[1] # "["
             THEN <<"[">> \o s.host \o <<"]">>
             ELSE s.host

\* getPort(r)
getPort(r) ==
    LET s == SplitHostPort(r.Host)
    IN  IF s.err
        THEN IF ~r.TLS THEN Port80 ELSE Port443
        ELSE s.port

(* ------------------------------ requests ------------------------------ *)

\* "127.0.0.1:36341"-like and "[::1]:44092"-like peers, shortened
AddrV4 == <<"1", ".", "2", ":", "9">>
AddrV6 == <<"[", ":", ":", "1", "]", ":", "9">>

Request(remote, host, tls, method, uri, proto) ==
    [RemoteAddr |-> remote, Host |-> host, TLS |-> tls,
     Method |-> method, RequestURI |-> uri, Proto |-> proto]

\* an inbound request together with whether its response writer is an http.Hijacker
Arrivals ==
    { [r |-> Request(AddrV4, <<"a">>, FALSE, "GET", "/index.html", "HTTP/1.1"), hijacker |-> TRUE],
      [r |-> Request(AddrV6, <<"a", ":", "8">>, TRUE, "HEAD", "/", "HTTP/2.0"), hijacker |-> FALSE] }

ArrivalsConc ==
    { [r |-> Request(AddrV4, <<"a">>, FALSE, "GET", "/index.html", "HTTP/1.1"), hijacker |-> TRUE] }

PortArrivals ==
    { [r |-> Request(AddrV4, h, tls, "GET", "/", "HTTP/1.1"), hijacker |-> TRUE] :
        h \in StringsUpTo(MaxHostLen), tls \in BOOLEAN }

AddrArrivals ==
    { [r |-> Request(a, <<"a">>, FALSE, "GET", "/", "HTTP/1.1"), hijacker |-> TRUE] :
        a \in StringsUpTo(MaxAddrLen) }

NoHandler == [ops |-> {}, calls |-> 0]

(* ------------------------------- state -------------------------------- *)

VARIABLES
    req,         \* req[i]: the inbound *http.Request of request i
    rwHijacker,  \* rwHijacker[i]: the real response writer of request i implements http.Hijacker
    handler,     \* handler[i]: what the inner handler of request i may do (operations, number of calls)
    pc,          \* pc[i]: where handler.ServeHTTP is for request i
    rec,         \* rec[k]: the record allocated by the k-th ServeHTTP call
    proxyCalls,  \* proxyCalls[i]: the calls the inner handler made on the proxy, with what it got back
    rwCalls,     \* rwCalls[i]: the calls the real response writer received, with what it returned
    asked,       \* asked[i]: the answer to the inner handler's w.(http.Hijacker) assertion
    logged,      \* logged[i]: the log lines record.Log formatted for request i
    wrote,       \* wrote[i]: how much of request i's log line the sink has taken
    sinkErr,     \* sinkErr[i]: the sink's Write returned an error for request i's line
    sink,        \* the bytes of the output sink, as a sequence of line parts
    sinkLock,    \* the request whose Write holds the sink's own lock, 0 when free
    sinkSerial,  \* the sink's Write excludes other Writes (it has its own lock)
    mainPc,      \* where main is
    sigPc,       \* where the goroutine that ranges over the signal channel is
    files,       \* which of gCertFile and gKeyFile exist in the temporary directory
    tlsWritten,  \* which of them generateSelfSignedCert has written in this run
    tlsFail,     \* the step of generateSelfSignedCert that failed, "none" when none did
    lst,         \* lst[p]: the listener goroutine of port p
    printed,     \* what the process has printed or logged
    procExit,    \* how the process ended and with which code
    tPc,         \* where tempFilename is
    tI,          \* tempFilename's loop counter i
    nconflict,   \* tempFilename's nconflict
    randuint,    \* the package variable randuint, as <<high 16 bits, low 16 bits>>
    randmu,      \* randmu is held
    fileName,    \* tempFilename's result variable
    tCreated,    \* the file named fileName was created by this call's OpenFile
    randWrites   \* the assignments to randuint so far: where, and whether randmu was held

reqVars == <<req, rwHijacker, handler, pc, rec, proxyCalls, rwCalls, asked, logged,
             wrote, sinkErr, sink, sinkLock, sinkSerial>>

procVars == <<mainPc, sigPc, files, tlsWritten, tlsFail, lst, printed, procExit>>

tempVars == <<tPc, tI, nconflict, randuint, randmu, fileName, tCreated, randWrites>>

vars == <<reqVars, procVars, tempVars>>

\* the zero record, before ServeHTTP builds one
ZeroRecord ==
    [ip |-> <<>>, port |-> <<>>, time |-> "zero", method |-> "", uri |-> "", protocol |-> "",
     status |-> 0, responseBytes |-> 0, elapsedTime |-> "zero"]

\* gHTTPPorts and gHTTPSPorts, in the order main ranges over them
HTTPPorts == {<<"http", k>> : k \in 1..NumHTTPPorts}
HTTPSPorts == {<<"https", k>> : k \in 1..NumHTTPSPorts}
Ports == HTTPPorts \cup HTTPSPorts

Running == [by |-> "none", code |-> 0]

\* the process part at rest, for the specifications of the request handler
ProcIdle ==
    /\ mainPc = "serving"
    /\ sigPc = "wait"
    /\ files = {"cert", "key"}
    /\ tlsWritten = {"cert", "key"}
    /\ tlsFail = "none"
    /\ lst = [p \in Ports |-> "serving"]
    /\ printed = {}
    /\ procExit = Running

\* tempFilename at rest, after both package-level calls have returned
TempIdle ==
    /\ tPc = "ret"
    /\ tI = 0
    /\ nconflict = 0
    /\ randuint = <<0, 1>>
    /\ randmu = FALSE
    /\ fileName = <<>>
    /\ tCreated = TRUE
    /\ randWrites = {}

InitReqs(live, arrivals, h, serial) ==
    /\ \E a \in [live -> arrivals] :
          /\ req = [i \in Reqs |-> IF i \in live THEN a[i].r ELSE Request(<<>>, <<>>, FALSE, "", "", "")]
          /\ rwHijacker = [i \in Reqs |-> IF i \in live THEN a[i].hijacker ELSE FALSE]
    /\ handler = [i \in Reqs |-> IF i \in live THEN h ELSE NoHandler]
    /\ pc = [i \in Reqs |-> IF i \in live THEN "idle" ELSE "absent"]
    /\ rec = [i \in Reqs |-> ZeroRecord]
    /\ proxyCalls = [i \in Reqs |-> <<>>]
    /\ rwCalls = [i \in Reqs |-> <<>>]
    /\ asked = [i \in Reqs |-> "unasked"]
    /\ logged = [i \in Reqs |-> <<>>]
    /\ wrote = [i \in Reqs |-> "none"]
    /\ sinkErr = [i \in Reqs |-> FALSE]
    /\ sink = <<>>
    /\ sinkLock = 0
    /\ sinkSerial \in serial

InitWith(live, arrivals, h, serial) ==
    /\ InitReqs(live, arrivals, h, serial)
    /\ ProcIdle
    /\ TempIdle

\* one request through the handler, any inner handler of up to MaxCalls calls
Init == InitWith({1}, Arrivals, [ops |-> AllOps, calls |-> MaxCalls], {TRUE})

\* NumReqs requests in flight at once through the same handler and sink
InitConc == InitWith(Reqs, ArrivalsConc, [ops |-> ConcOps, calls |-> MaxCallsConc], {TRUE})

\* NumReqs requests whose inner handlers write nothing, on a sink of either kind
InitSink == InitWith(Reqs, ArrivalsConc, NoHandler, BOOLEAN)

\* one request whose Host header ranges over every bounded string
InitPort == InitWith({1}, PortArrivals, [ops |-> {}, calls |-> 0], {TRUE})

\* one request whose peer address ranges over every bounded string
InitAddr == InitWith({1}, AddrArrivals, [ops |-> {}, calls |-> 0], {TRUE})

(* ------------------------------ the record ---------------------------- *)

\* a record literal that leaves status at its zero value
newRecordNoStatus(r) ==
    [ip |-> getIP(r.RemoteAddr), port |-> getPort(r), time |-> "zero",
     method |-> r.Method, uri |-> r.RequestURI, protocol |-> r.Proto,
     status |-> 0, responseBytes |-> 0, elapsedTime |-> "zero"]

\* handler.ServeHTTP's composite literal: the record built for a request
newRecord(r) ==
    [ip |-> getIP(r.RemoteAddr), port |-> getPort(r), time |-> "zero",
     method |-> r.Method, uri |-> r.RequestURI, protocol |-> r.Proto,
     status |-> StatusOK, responseBytes |-> 0, elapsedTime |-> "zero"]

\* one record kept in the handler and reused by every call
recordOfShared(i) == 1

\* every ServeHTTP call allocates its own record
recordOf(i) == i

\* a Write that also records the implicit 200 of a first Write
recordWriteSetsStatus(r, p, written, err) ==
    [r EXCEPT !.responseBytes = @ + written, !.status = StatusOK]

\* a Write that counts the bytes offered instead of the bytes taken
recordWriteOffered(r, p, written, err) == [r EXCEPT !.responseBytes = @ + p]

\* record.Write: the record after the underlying Write returned (written, err)
recordWrite(r, p, written, err) == [r EXCEPT !.responseBytes = @ + written]

\* record.Write: what it returns to the inner handler
recordWriteReturn(written, err) == [n |-> written, err |-> err]

\* record.Write: the slice it passes to the underlying Write
recordWriteForward(p) == <<p>>

\* a WriteHeader that forwards the status and does not record it
recordWriteHeaderForget(r, status) == r

\* a WriteHeader that keeps the first status it was given
recordWriteHeaderFirst(r, status) == [r EXCEPT !.status = IF @ = StatusOK THEN status ELSE @]

\* record.WriteHeader: the record afterwards
recordWriteHeader(r, status) == [r EXCEPT !.status = status]

\* a WriteHeader that records the status and forwards nothing
recordWriteHeaderSwallow(status) == <<>>

\* record.WriteHeader: the calls it makes on the underlying writer
recordWriteHeaderForward(status) == <<status>>

\* the method set of *record: the methods promoted from the embedded
\* http.ResponseWriter interface, and its own Log, Write and WriteHeader
RecordMethods == {"Header", "Write", "WriteHeader"} \cup {"Log", "Write", "WriteHeader"}

\* r.time.Format("02/Jan/2006 15:04:05"): the fields of t in the layout's
\* order, with the layout's separators between them
timeFormatted(t) ==
    <<[day |-> t], "/", [month |-> t], "/", [year |-> t], " ",
      [hour |-> t], ":", [minute |-> t], ":", [second |-> t]>>

\* fmt.Fprintf with apacheFormatPattern, "%s:%s - - [%s] \"%s %s %s\" %d %d %0.4f\n":
\* the pattern's literal text with the arguments in the places of its verbs
apacheFormatPattern(ip, port, time, method, uri, protocol, status, bytes, seconds) ==
    <<ip, ":", port, " - - [">> \o time \o
    <<"] \"", method, " ", uri, " ", protocol, "\" ", status, " ", bytes, " ",
      [seconds4 |-> seconds], "\n">>

\* record.Log: the arguments handed to the format pattern, in its order, and
\* the text it produces
LogLine(r) ==
    [ip |-> r.ip, port |-> r.port, time |-> r.time, method |-> r.method, uri |-> r.uri,
     protocol |-> r.protocol, status |-> r.status, bytes |-> r.responseBytes,
     elapsed |-> r.elapsedTime,
     text |-> apacheFormatPattern(r.ip, r.port, timeFormatted(r.time), r.method, r.uri,
                                  r.protocol, r.status, r.responseBytes, r.elapsedTime)]

\* a ServeHTTP that panics when the log line could not be written
AfterLogPropagate(err) == IF err THEN "panicked" ELSE "done"

\* handler.ServeHTTP after record.Log: the result of fmt.Fprintf is discarded
AfterLog(err) == "done"

(* ------------------------------ actions ------------------------------- *)

CanCall(i) == pc[i] = "inner" /\ Len(proxyCalls[i]) < handler[i].calls

\* handler.ServeHTTP up to the call of the inner handler
ServeHTTPBegin(i) ==
    /\ pc[i] = "idle"
    /\ rec' = [rec EXCEPT ![recordOf(i)] = newRecord(req[i])]
    /\ pc' = [pc EXCEPT ![i] = "inner"]
    /\ UNCHANGED <<req, rwHijacker, handler, proxyCalls, rwCalls, asked, logged,
                   wrote, sinkErr, sink, sinkLock, sinkSerial>>
    /\ UNCHANGED <<procVars, tempVars>>

\* the inner handler calls Write(p) on the proxy; the underlying writer takes
\* written of the p bytes and reports an error whenever it took fewer
InnerWrite(i) ==
    /\ CanCall(i)
    /\ \E o \in {x \in handler[i].ops : x.op = "Write"} :
       \E written \in 0..o.arg, err \in BOOLEAN :
          /\ written < o.arg => err
          /\ rwCalls' = [rwCalls EXCEPT ![i] = @ \o
                [k \in 1..Len(recordWriteForward(o.arg)) |->
                    [op |-> "Write", arg |-> recordWriteForward(o.arg)[k], n |-> written, err |-> err]]]
          /\ rec' = [rec EXCEPT ![recordOf(i)] = recordWrite(@, o.arg, written, err)]
          /\ proxyCalls' = [proxyCalls EXCEPT ![i] = Append(@,
                [op |-> "Write", arg |-> o.arg,
                 n |-> recordWriteReturn(written, err).n, err |-> recordWriteReturn(written, err).err])]
    /\ UNCHANGED <<req, rwHijacker, handler, pc, asked, logged, wrote, sinkErr, sink,
                   sinkLock, sinkSerial>>
    /\ UNCHANGED <<procVars, tempVars>>

\* the inner handler calls WriteHeader(status) on the proxy
InnerWriteHeader(i) ==
    /\ CanCall(i)
    /\ \E o \in {x \in handler[i].ops : x.op = "WriteHeader"} :
          /\ rec' = [rec EXCEPT ![recordOf(i)] = recordWriteHeader(@, o.arg)]
          /\ rwCalls' = [rwCalls EXCEPT ![i] = @ \o
                [k \in 1..Len(recordWriteHeaderForward(o.arg)) |->
                    [op |-> "WriteHeader", arg |-> recordWriteHeaderForward(o.arg)[k],
                     n |-> 0, err |-> FALSE]]]
          /\ proxyCalls' = [proxyCalls EXCEPT ![i] = Append(@,
                [op |-> "WriteHeader", arg |-> o.arg, n |-> 0, err |-> FALSE])]
    /\ UNCHANGED <<req, rwHijacker, handler, pc, asked, logged, wrote, sinkErr, sink,
                   sinkLock, sinkSerial>>
    /\ UNCHANGED <<procVars, tempVars>>

\* the inner handler asserts the writer it was given to http.Hijacker
InnerAssertHijacker(i) ==
    /\ pc[i] = "inner"
    /\ asked[i] = "unasked"
    /\ asked' = [asked EXCEPT ![i] = IF "Hijack" \in RecordMethods THEN "ok" ELSE "no"]
    /\ UNCHANGED <<req, rwHijacker, handler, pc, rec, proxyCalls, rwCalls, logged,
                   wrote, sinkErr, sink, sinkLock, sinkSerial>>
    /\ UNCHANGED <<procVars, tempVars>>

\* the inner handler's ServeHTTP returns
InnerReturn(i) ==
    /\ pc[i] = "inner"
    /\ pc' = [pc EXCEPT ![i] = "returned"]
    /\ UNCHANGED <<req, rwHijacker, handler, rec, proxyCalls, rwCalls, asked, logged,
                   wrote, sinkErr, sink, sinkLock, sinkSerial>>
    /\ UNCHANGED <<procVars, tempVars>>

\* the inner handler's ServeHTTP panics: handler.ServeHTTP has no deferred
\* call, so the panic unwinds it and the server recovers
InnerPanic(i) ==
    /\ pc[i] = "inner"
    /\ pc' = [pc EXCEPT ![i] = "panicked"]
    /\ UNCHANGED <<req, rwHijacker, handler, rec, proxyCalls, rwCalls, asked, logged,
                   wrote, sinkErr, sink, sinkLock, sinkSerial>>
    /\ UNCHANGED <<procVars, tempVars>>

\* handler.ServeHTTP after the inner handler: the times are set and record.Log
\* formats the line and hands it to the sink in one Write
Log(i) ==
    /\ pc[i] = "returned"
    /\ rec' = [rec EXCEPT ![recordOf(i)] = [@ EXCEPT !.time = "finishTime", !.elapsedTime = "finish-start"]]
    /\ logged' = [logged EXCEPT ![i] = Append(@, LogLine(rec'[recordOf(i)]))]
    /\ pc' = [pc EXCEPT ![i] = "logging"]
    /\ UNCHANGED <<req, rwHijacker, handler, proxyCalls, rwCalls, asked, wrote, sinkErr,
                   sink, sinkLock, sinkSerial>>
    /\ UNCHANGED <<procVars, tempVars>>

\* the sink's Write takes the first part of the line
SinkWriteHead(i) ==
    /\ pc[i] = "logging"
    /\ wrote[i] = "none"
    /\ sinkSerial => sinkLock = 0
    /\ sink' = Append(sink, [id |-> i, part |-> "head"])
    /\ wrote' = [wrote EXCEPT ![i] = "head"]
    /\ sinkLock' = IF sinkSerial THEN i ELSE sinkLock
    /\ UNCHANGED <<req, rwHijacker, handler, pc, rec, proxyCalls, rwCalls, asked, logged,
                   sinkErr, sinkSerial>>
    /\ UNCHANGED <<procVars, tempVars>>

\* the sink's Write takes the rest of the line and returns
SinkWriteTail(i) ==
    /\ pc[i] = "logging"
    /\ wrote[i] = "head"
    /\ sink' = Append(sink, [id |-> i, part |-> "tail"])
    /\ wrote' = [wrote EXCEPT ![i] = "all"]
    /\ sinkLock' = IF sinkLock = i THEN 0 ELSE sinkLock
    /\ pc' = [pc EXCEPT ![i] = AfterLog(FALSE)]
    /\ UNCHANGED <<req, rwHijacker, handler, rec, proxyCalls, rwCalls, asked, logged,
                   sinkErr, sinkSerial>>
    /\ UNCHANGED <<procVars, tempVars>>

\* the sink's Write fails, before or after the first part
SinkWriteError(i) ==
    /\ pc[i] = "logging"
    /\ wrote[i] \in {"none", "head"}
    /\ (sinkSerial /\ wrote[i] = "none") => sinkLock = 0
    /\ sinkErr' = [sinkErr EXCEPT ![i] = TRUE]
    /\ sinkLock' = IF sinkLock = i THEN 0 ELSE sinkLock
    /\ pc' = [pc EXCEPT ![i] = AfterLog(TRUE)]
    /\ UNCHANGED <<req, rwHijacker, handler, rec, proxyCalls, rwCalls, asked, logged,
                   wrote, sink, sinkSerial>>
    /\ UNCHANGED <<procVars, tempVars>>

Next ==
    \E i \in Reqs :
        \/ ServeHTTPBegin(i)
        \/ InnerWrite(i)
        \/ InnerWriteHeader(i)
        \/ InnerAssertHijacker(i)
        \/ InnerReturn(i)
        \/ InnerPanic(i)
        \/ Log(i)
        \/ SinkWriteHead(i)
        \/ SinkWriteTail(i)
        \/ SinkWriteError(i)

\* concurrent requests up to the formatted log line
NextConc ==
    \E i \in Reqs :
        \/ ServeHTTPBegin(i)
        \/ InnerWrite(i)
        \/ InnerWriteHeader(i)
        \/ InnerReturn(i)
        \/ InnerPanic(i)
        \/ Log(i)

\* concurrent requests writing their log lines to the shared sink
NextSink ==
    \E i \in Reqs :
        \/ ServeHTTPBegin(i)
        \/ InnerReturn(i)
        \/ InnerPanic(i)
        \/ Log(i)
        \/ SinkWriteHead(i)
        \/ SinkWriteTail(i)
        \/ SinkWriteError(i)

\* ServeHTTP for a request whose inner handler writes nothing
NextPort ==
    \E i \in Reqs :
        \/ ServeHTTPBegin(i)
        \/ InnerReturn(i)
        \/ Log(i)

Spec == Init /\ [][Next]_vars

SpecConc == InitConc /\ [][NextConc]_vars

SpecSink == InitSink /\ [][NextSink]_vars

SpecPort == InitPort /\ [][NextPort]_vars

SpecAddr == InitAddr /\ [][NextPort]_vars

(* ------------------------- the process (main) ------------------------- *)

\* main after signal.Notify and the start of the signal goroutine; the
\* package-level tempFilename calls have created gCertFile and gKeyFile
InitMain ==
    /\ InitReqs({}, Arrivals, NoHandler, {TRUE})
    /\ TempIdle
    /\ mainPc = "http"
    /\ sigPc = "wait"
    /\ files = {"cert", "key"}
    /\ tlsWritten = {}
    /\ tlsFail = "none"
    /\ lst = [p \in Ports |-> "unstarted"]
    /\ printed = {}
    /\ procExit = Running

Alive == procExit = Running

\* a line on standard output or in the log, and the port it names
NoPort == <<"", 0>>
Message(text, port) == [text |-> text, port |-> port]

\* the next port of a list that has no listener yet
NextPortOf(ports) ==
    {p \in ports : lst[p] = "unstarted" /\ \A q \in ports : q[2] < p[2] => lst[q] # "unstarted"}

\* log.Fatalf: the message is logged and the process exits with code 1
Fatalf(msg, step) ==
    /\ printed' = printed \cup {Message(msg, NoPort)}
    /\ tlsFail' = step
    /\ procExit' = [by |-> "fatal", code |-> 1]
    /\ UNCHANGED <<mainPc, sigPc, files, tlsWritten, lst>>

\* main: one turn of the loop over gHTTPPorts: wg.Add(1), the goroutine that
\* calls server.ListenAndServe, and the "Listening on port" line
MainStartHTTP(p) ==
    /\ Alive
    /\ mainPc = "http"
    /\ p \in NextPortOf(HTTPPorts)
    /\ lst' = [lst EXCEPT ![p] = "serving"]
    /\ printed' = printed \cup {Message("Listening on port", p)}
    /\ mainPc' = IF \A q \in HTTPPorts : lst'[q] # "unstarted" THEN "genKey" ELSE "http"
    /\ UNCHANGED <<sigPc, files, tlsWritten, tlsFail, procExit>>
    /\ UNCHANGED <<reqVars, tempVars>>

\* generateSelfSignedCert: rsa.GenerateKey
GenKey ==
    /\ Alive
    /\ mainPc = "genKey"
    /\ \/ /\ mainPc' = "createCert"
          /\ UNCHANGED <<sigPc, files, tlsWritten, tlsFail, lst, printed, procExit>>
       \/ Fatalf("failed to generate private key", "GenerateKey")
    /\ UNCHANGED <<reqVars, tempVars>>

\* generateSelfSignedCert: x509.CreateCertificate
CreateCertificate ==
    /\ Alive
    /\ mainPc = "createCert"
    /\ \/ /\ mainPc' = "openCert"
          /\ UNCHANGED <<sigPc, files, tlsWritten, tlsFail, lst, printed, procExit>>
       \/ Fatalf("Failed to create certificate", "CreateCertificate")
    /\ UNCHANGED <<reqVars, tempVars>>

\* generateSelfSignedCert: os.Create(gCertFile), which creates the file when
\* it does not exist
OpenCertFile ==
    /\ Alive
    /\ mainPc = "openCert"
    /\ \/ /\ files' = files \cup {"cert"}
          /\ mainPc' = "writeCert"
          /\ UNCHANGED <<sigPc, tlsWritten, tlsFail, lst, printed, procExit>>
       \/ Fatalf("failed to open gCertFile for writing", "os.Create(gCertFile)")
    /\ UNCHANGED <<reqVars, tempVars>>

\* generateSelfSignedCert: pem.Encode(certOut, ...) and certOut.Close()
WriteCertFile ==
    /\ Alive
    /\ mainPc = "writeCert"
    /\ tlsWritten' = tlsWritten \cup {"cert"}
    /\ mainPc' = "openKey"
    /\ UNCHANGED <<sigPc, files, tlsFail, lst, printed, procExit>>
    /\ UNCHANGED <<reqVars, tempVars>>

\* generateSelfSignedCert: os.OpenFile(gKeyFile, O_WRONLY|O_CREATE|O_TRUNC);
\* on an error it calls log.Print and returns to main
OpenKeyFile ==
    /\ Alive
    /\ mainPc = "openKey"
    /\ \/ /\ files' = files \cup {"key"}
          /\ mainPc' = "writeKey"
          /\ UNCHANGED <<sigPc, tlsWritten, tlsFail, lst, printed, procExit>>
       \/ /\ printed' = printed \cup {Message("failed to open %s for writing:", NoPort)}
          /\ tlsFail' = "os.OpenFile(gKeyFile)"
          /\ mainPc' = "https"
          /\ UNCHANGED <<sigPc, files, tlsWritten, lst, procExit>>
    /\ UNCHANGED <<reqVars, tempVars>>

\* generateSelfSignedCert: pem.Encode(keyOut, ...), keyOut.Close() and return
WriteKeyFile ==
    /\ Alive
    /\ mainPc = "writeKey"
    /\ tlsWritten' = tlsWritten \cup {"key"}
    /\ mainPc' = "https"
    /\ UNCHANGED <<sigPc, files, tlsFail, lst, printed, procExit>>
    /\ UNCHANGED <<reqVars, tempVars>>

\* main: one turn of the loop over gHTTPSPorts: wg.Add(1), the goroutine that
\* calls server.ListenAndServeTLS, and the "Listening on port" line
MainStartHTTPS(p) ==
    /\ Alive
    /\ mainPc = "https"
    /\ p \in NextPortOf(HTTPSPorts)
    /\ lst' = [lst EXCEPT ![p] = "serving"]
    /\ printed' = printed \cup {Message("Listening on port", p)}
    /\ mainPc' = IF \A q \in HTTPSPorts : lst'[q] # "unstarted" THEN "wait" ELSE "https"
    /\ UNCHANGED <<sigPc, files, tlsWritten, tlsFail, procExit>>
    /\ UNCHANGED <<reqVars, tempVars>>

\* a listener goroutine: ListenAndServe or ListenAndServeTLS returns its
\* error (bind, accept or key pair), the goroutine drops it and wg.Done runs
ListenerReturn(p) ==
    /\ Alive
    /\ lst[p] = "serving"
    /\ lst' = [lst EXCEPT ![p] = "returned"]
    /\ UNCHANGED <<mainPc, sigPc, files, tlsWritten, tlsFail, printed, procExit>>
    /\ UNCHANGED <<reqVars, tempVars>>

\* main: wg.Wait() returns when every listener goroutine is done
MainWait ==
    /\ Alive
    /\ mainPc = "wait"
    /\ \A p \in Ports : lst[p] = "returned"
    /\ mainPc' = "rmCert"
    /\ UNCHANGED <<sigPc, files, tlsWritten, tlsFail, lst, printed, procExit>>
    /\ UNCHANGED <<reqVars, tempVars>>

\* main: cleanup(), os.Remove(gCertFile)
MainRemoveCert ==
    /\ Alive
    /\ mainPc = "rmCert"
    /\ files' = files \ {"cert"}
    /\ mainPc' = "rmKey"
    /\ UNCHANGED <<sigPc, tlsWritten, tlsFail, lst, printed, procExit>>
    /\ UNCHANGED <<reqVars, tempVars>>

\* main: cleanup(), os.Remove(gKeyFile)
MainRemoveKey ==
    /\ Alive
    /\ mainPc = "rmKey"
    /\ files' = files \ {"key"}
    /\ mainPc' = "return"
    /\ UNCHANGED <<sigPc, tlsWritten, tlsFail, lst, printed, procExit>>
    /\ UNCHANGED <<reqVars, tempVars>>

\* main returns: the process exits with code 0
MainReturn ==
    /\ Alive
    /\ mainPc = "return"
    /\ procExit' = [by |-> "normal", code |-> 0]
    /\ UNCHANGED <<mainPc, sigPc, files, tlsWritten, tlsFail, lst, printed>>
    /\ UNCHANGED <<reqVars, tempVars>>

\* the signal goroutine receives os.Interrupt from c and prints "Ctrl-C: "
Interrupt ==
    /\ Alive
    /\ sigPc = "wait"
    /\ printed' = printed \cup {Message("Ctrl-C: ", NoPort)}
    /\ sigPc' = "rmCert"
    /\ UNCHANGED <<mainPc, files, tlsWritten, tlsFail, lst, procExit>>
    /\ UNCHANGED <<reqVars, tempVars>>

\* the signal goroutine: cleanup(), os.Remove(gCertFile)
SigRemoveCert ==
    /\ Alive
    /\ sigPc = "rmCert"
    /\ files' = files \ {"cert"}
    /\ sigPc' = "rmKey"
    /\ UNCHANGED <<mainPc, tlsWritten, tlsFail, lst, printed, procExit>>
    /\ UNCHANGED <<reqVars, tempVars>>

\* the signal goroutine: cleanup(), os.Remove(gKeyFile)
SigRemoveKey ==
    /\ Alive
    /\ sigPc = "rmKey"
    /\ files' = files \ {"key"}
    /\ sigPc' = "exit"
    /\ UNCHANGED <<mainPc, tlsWritten, tlsFail, lst, printed, procExit>>
    /\ UNCHANGED <<reqVars, tempVars>>

\* the signal goroutine: os.Exit(1)
SigExit ==
    /\ Alive
    /\ sigPc = "exit"
    /\ procExit' = [by |-> "interrupt", code |-> 1]
    /\ UNCHANGED <<mainPc, sigPc, files, tlsWritten, tlsFail, lst, printed>>
    /\ UNCHANGED <<reqVars, tempVars>>

NextMain ==
    \/ \E p \in Ports : MainStartHTTP(p) \/ MainStartHTTPS(p) \/ ListenerReturn(p)
    \/ GenKey
    \/ CreateCertificate
    \/ OpenCertFile
    \/ WriteCertFile
    \/ OpenKeyFile
    \/ WriteKeyFile
    \/ MainWait
    \/ MainRemoveCert
    \/ MainRemoveKey
    \/ MainReturn
    \/ Interrupt
    \/ SigRemoveCert
    \/ SigRemoveKey
    \/ SigExit

SpecMain == InitMain /\ [][NextMain]_vars

(* --------------------------- tempFilename ---------------------------- *)

\* the values reseed() returns here: uint32(time.Now().UnixNano() + pid)
Seeds == {<<0, 0>>, <<4660, 22136>>}

\* r*1664525 + 1013904223 in uint32, on 16-bit halves:
\* 1664525 = 25 * 65536 + 26125 and 1013904223 = 15470 * 65536 + 62303
NextRand(r) ==
    LET low == r[2] * 26125 + 62303
        high == r[1] * 26125 + r[2] * 25 + (low \div 65536) + 15470
    IN  <<high % 65536, low % 65536>>

\* (x * 2^k) % 1e9
RECURSIVE ShiftMod(_, _)
ShiftMod(x, k) == IF k = 0 THEN x % 1000000000 ELSE ShiftMod((2 * x) % 1000000000, k - 1)

\* the decimal digits of n, most significant first
RECURSIVE Itoa(_)
Itoa(n) == IF n < 10 THEN <<n>> ELSE Append(Itoa(n \div 10), n % 10)

\* nextSuffix's result: strconv.Itoa(int(1e9 + r%1e9))[1:]
Suffix(r) == Tail(Itoa(1000000000 + ((ShiftMod(r[1], 16) + r[2]) % 1000000000)))

\* the process before main runs, while the package-level variables are set
ProcBeforeMain ==
    /\ mainPc = "init"
    /\ sigPc = "off"
    /\ files = {}
    /\ tlsWritten = {}
    /\ tlsFail = "none"
    /\ lst = [p \in Ports |-> "unstarted"]
    /\ printed = {}
    /\ procExit = Running

\* one call of tempFilename, the first (randuint is 0) or a later one
InitTemp ==
    /\ InitReqs({}, Arrivals, NoHandler, {TRUE})
    /\ ProcBeforeMain
    /\ tPc = "loop"
    /\ tI = 0
    /\ nconflict = 0
    /\ randuint \in {<<0, 0>>, <<1, 2>>}
    /\ randmu = FALSE
    /\ fileName = <<>>
    /\ tCreated = FALSE
    /\ randWrites = {}

\* tempFilename: the loop test i < 10000, and the return after the loop
TempLoop ==
    /\ tPc = "loop"
    /\ tPc' = IF tI < MaxAttempts THEN "lock" ELSE "ret"
    /\ UNCHANGED <<tI, nconflict, randuint, randmu, fileName, tCreated, randWrites>>
    /\ UNCHANGED <<reqVars, procVars>>

\* nextSuffix: randmu.Lock()
NextSuffixLock ==
    /\ tPc = "lock"
    /\ ~randmu
    /\ randmu' = TRUE
    /\ tPc' = "crit"
    /\ UNCHANGED <<tI, nconflict, randuint, fileName, tCreated, randWrites>>
    /\ UNCHANGED <<reqVars, procVars>>

\* nextSuffix: r := randuint, reseed when it is 0, the next value, randuint = r
NextSuffixAssign ==
    /\ tPc = "crit"
    /\ \E seed \in IF randuint = <<0, 0>> THEN Seeds ELSE {randuint} :
          randuint' = NextRand(seed)
    /\ randWrites' = randWrites \cup {[site |-> "nextSuffix", held |-> randmu]}
    /\ tPc' = "unlock"
    /\ UNCHANGED <<tI, nconflict, randmu, fileName, tCreated>>
    /\ UNCHANGED <<reqVars, procVars>>

\* nextSuffix: randmu.Unlock() and the return of the suffix, which
\* tempFilename joins to dir and prefix as fileName
NextSuffixUnlock ==
    /\ tPc = "unlock"
    /\ randmu' = FALSE
    /\ fileName' = Suffix(randuint)
    /\ tPc' = "open"
    /\ UNCHANGED <<tI, nconflict, randuint, tCreated, randWrites>>
    /\ UNCHANGED <<reqVars, procVars>>

\* tempFilename: os.OpenFile with O_CREATE|O_EXCL creates the file; f.Close(), break
OpenCreated ==
    /\ tPc = "open"
    /\ tCreated' = TRUE
    /\ tPc' = "ret"
    /\ UNCHANGED <<tI, nconflict, randuint, randmu, fileName, randWrites>>
    /\ UNCHANGED <<reqVars, procVars>>

\* tempFilename: os.OpenFile fails because the file exists; nconflict++, and
\* past 10 conflicts the reseed, else i++ and the next turn
OpenExists ==
    /\ tPc = "open"
    /\ nconflict' = nconflict + 1
    /\ IF nconflict' > ReseedAfter
       THEN tPc' = "reseed" /\ UNCHANGED tI
       ELSE tPc' = "loop" /\ tI' = tI + 1
    /\ UNCHANGED <<randuint, randmu, fileName, tCreated, randWrites>>
    /\ UNCHANGED <<reqVars, procVars>>

\* tempFilename: os.OpenFile fails with another error; f is nil, f.Close()
\* returns an error that is dropped, break
OpenError ==
    /\ tPc = "open"
    /\ tPc' = "ret"
    /\ UNCHANGED <<tI, nconflict, randuint, randmu, fileName, tCreated, randWrites>>
    /\ UNCHANGED <<reqVars, procVars>>

\* tempFilename: randuint = reseed(), then continue (i++)
TempReseed ==
    /\ tPc = "reseed"
    /\ randuint' \in Seeds
    /\ randWrites' = randWrites \cup {[site |-> "tempFilename", held |-> randmu]}
    /\ tI' = tI + 1
    /\ tPc' = "loop"
    /\ UNCHANGED <<nconflict, randmu, fileName, tCreated>>
    /\ UNCHANGED <<reqVars, procVars>>

NextTemp ==
    \/ TempLoop
    \/ NextSuffixLock
    \/ NextSuffixAssign
    \/ NextSuffixUnlock
    \/ OpenCreated
    \/ OpenExists
    \/ OpenError
    \/ TempReseed

SpecTemp == InitTemp /\ [][NextTemp]_vars

(* ------------------------------- claims ------------------------------- *)

Started(i) == pc[i] \in {"inner", "returned", "logging", "done", "panicked"}

\* the byte counts the underlying Write calls returned, summed
RECURSIVE SumReturned(_)
SumReturned(calls) ==
    IF calls = <<>> THEN 0
    ELSE (IF Head(calls).op = "Write" THEN Head(calls).n ELSE 0) + SumReturned(Tail(calls))

WriteHeaderArgs(calls) == SelectSeq(calls, LAMBDA c : c.op = "WriteHeader")

\* C1: every ServeHTTP call, however its inner handler ends, writes exactly
\* one log line, and nothing of it before the inner handler has returned.
C1_OneLinePerCall ==
    \A i \in Reqs :
        /\ Len(logged[i]) <= 1
        /\ pc[i] \in {"done", "panicked"} => Len(logged[i]) = 1
        /\ (logged[i] # <<>> \/ wrote[i] # "none") => pc[i] \in {"logging", "done"}

\* C2: the record's responseBytes starts at 0 and, at log time, is the sum of
\* the byte counts the underlying writer's Write returned, short and failed
\* writes included.
C2_BytesAreSumReturned ==
    \A i \in Reqs :
        /\ Started(i) => rec[i].responseBytes = SumReturned(rwCalls[i])
        /\ \A k \in 1..Len(logged[i]) : logged[i][k].bytes = SumReturned(rwCalls[i])

C2_Witness ==
    \E i \in Reqs :
        /\ pc[i] = "done"
        /\ logged[i] # <<>>
        /\ logged[i][1].bytes > 0
        /\ \E a, b \in 1..Len(rwCalls[i]) :
              /\ rwCalls[i][a].op = "Write" /\ rwCalls[i][a].n < rwCalls[i][a].arg /\ rwCalls[i][a].err
              /\ rwCalls[i][b].op = "Write" /\ rwCalls[i][b].n = rwCalls[i][b].arg

\* C3: when the inner handler called WriteHeader more than once, the logged
\* status is the argument of its last WriteHeader call.
C3_LastStatusLogged ==
    \A i \in Reqs : \A k \in 1..Len(logged[i]) :
        LET hs == WriteHeaderArgs(proxyCalls[i])
        IN  Len(hs) >= 2 => logged[i][k].status = hs[Len(hs)].arg

C3_Witness ==
    \E i \in Reqs :
        /\ logged[i] # <<>>
        /\ Len(proxyCalls[i]) = 3
        /\ proxyCalls[i][1].op = "WriteHeader"
        /\ proxyCalls[i][2].op = "Write"
        /\ proxyCalls[i][3].op = "WriteHeader"
        /\ proxyCalls[i][1].arg # proxyCalls[i][3].arg

\* C4: when the inner handler never called WriteHeader, the logged status is 200.
C4_DefaultStatus200 ==
    \A i \in Reqs : \A k \in 1..Len(logged[i]) :
        WriteHeaderArgs(proxyCalls[i]) = <<>> => logged[i][k].status = 200

C4_Witness ==
    \E i \in Reqs :
        /\ logged[i] # <<>>
        /\ proxyCalls[i] # <<>>
        /\ WriteHeaderArgs(proxyCalls[i]) = <<>>

\* C5: the underlying writer receives exactly the Write and WriteHeader calls
\* the inner handler made on the proxy, once each, in order, with the same
\* arguments, and the inner handler gets back what the underlying Write
\* returned; the wrapper makes no call of its own.
C5_CallsForwardedExactly ==
    \A i \in Reqs : rwCalls[i] = proxyCalls[i]

C5_Witness ==
    \E i \in Reqs :
        /\ pc[i] = "done"
        /\ Len(proxyCalls[i]) = 3
        /\ \E a, b \in 1..3 :
              /\ proxyCalls[i][a].op = "WriteHeader"
              /\ proxyCalls[i][b].op = "Write" /\ proxyCalls[i][b].err
              /\ proxyCalls[i][b].n < proxyCalls[i][b].arg

\* C6: an inner handler that asks the proxy for connection hijacking gets
\* the answer the real response writer would have given.
C6_SameCapabilities ==
    \A i \in Reqs : asked[i] # "unasked" => ((asked[i] = "ok") <=> rwHijacker[i])

\* C7: when the sink's Write returns an error, ServeHTTP still returns
\* normally, the line is not written again, and what was forwarded to the
\* underlying writer stays as it was.
C7_LogErrorIgnored ==
    /\ [](\A i \in Reqs : sinkErr[i] =>
              /\ pc[i] = "done"
              /\ Len(logged[i]) = 1
              /\ Len(SelectSeq(sink, LAMBDA c : c.id = i /\ c.part = "head")) <= 1)
    /\ [][\A i \in Reqs : pc[i] = "logging" => rwCalls'[i] = rwCalls[i]]_vars

C7_Witness ==
    \E i \in Reqs :
        /\ sinkErr[i]
        /\ pc[i] = "done"
        /\ wrote[i] = "head"
        /\ rwCalls[i] # <<>>

C9_RecordPrivate ==
    \A i \in Reqs : \A k \in 1..Len(logged[i]) :
        LET hs == WriteHeaderArgs(proxyCalls[i])
        IN  /\ logged[i][k].status = IF hs = <<>> THEN 200 ELSE hs[Len(hs)].arg
            /\ logged[i][k].bytes = SumReturned(proxyCalls[i])

C9_Witness ==
    \E i, j \in Reqs :
        /\ i # j
        /\ pc[i] = "inner" /\ proxyCalls[i] # <<>>
        /\ logged[j] # <<>> /\ proxyCalls[j] # <<>>
        /\ \/ logged[j][1].status # rec[i].status
           \/ logged[j][1].bytes # rec[i].responseBytes

\* "Host contains a port": it splits into host and port, and the port is not empty
HostHasPort(h) == ~SplitHostPort(h).err /\ SplitHostPort(h).port # <<>>

\* C10: the logged port is the Host header's port when it has one, and
\* otherwise 80 on a plaintext connection and 443 on a TLS connection.
C10_PortFromHost ==
    \A i \in Reqs : \A k \in 1..Len(logged[i]) :
        logged[i][k].port =
            IF HostHasPort(req[i].Host) THEN SplitHostPort(req[i].Host).port
            ELSE IF req[i].TLS THEN Port443 ELSE Port80

NoneOf(s, cs) == \A k \in 1..Len(s) : s[k] \notin cs

\* the peer addresses of the form [host]:port, as the pairs <<host, port>>
BracketedForms(a) ==
    { <<SubSeq(a, 2, e - 1), SubSeq(a, e + 2, Len(a))>> : e \in
        { e \in 2..(Len(a) - 1) :
            /\ a[1] = "[" /\ a[e] = "]" /\ a[e + 1] = ":"
            /\ NoneOf(SubSeq(a, 2, e - 1), {"[", "]"})
            /\ NoneOf(SubSeq(a, e + 2, Len(a)), {"[", "]", ":"}) } }

\* the peer addresses of the form host:port, as the pairs <<host, port>>
PlainForms(a) ==
    { <<SubSeq(a, 1, c - 1), SubSeq(a, c + 1, Len(a))>> : c \in
        { c \in 1..Len(a) :
            /\ a[c] = ":"
            /\ NoneOf(SubSeq(a, 1, c - 1), {"[", "]", ":"})
            /\ NoneOf(SubSeq(a, c + 1, Len(a)), {"[", "]", ":"}) } }

\* C11: the logged address is the host of a well-formed host:port peer
\* address, inside one pair of brackets exactly when the host has a colon;
\* a peer address that cannot be split is logged as it is, and the request
\* is served all the same.
C11_ClientAddress ==
    \A i \in Reqs : \A k \in 1..Len(logged[i]) :
        LET a == req[i].RemoteAddr
            forms == BracketedForms(a) \cup PlainForms(a)
            ip == logged[i][k].ip
        IN  /\ forms = {} => ip = a
            /\ \A f \in forms :
                  ip = IF Contains(f[1], ":") THEN <<"[">> \o f[1] \o <<"]">> ELSE f[1]

C11_Witness ==
    \E i \in Reqs :
        /\ logged[i] # <<>>
        /\ req[i].RemoteAddr = <<"[", ":", "]", ":", "8">>
        /\ logged[i][1].ip = <<"[", ":", "]">>

\* C12: every log line is ip, ':', port, ' - - [', day/Mon/year:HH:MM:SS,
\* '] "', the request's method, URI and protocol with single spaces between
\* them, '" ', status, bytes and elapsed seconds with single spaces between
\* them, and a newline.
C12_LineLayout ==
    \A i \in Reqs : \A k \in 1..Len(logged[i]) :
        LET l == logged[i][k]
        IN  l.text =
              <<l.ip, ":", l.port, " - - [",
                [day |-> l.time], "/", [month |-> l.time], "/", [year |-> l.time], ":",
                [hour |-> l.time], ":", [minute |-> l.time], ":", [second |-> l.time],
                "] \"", req[i].Method, " ", req[i].RequestURI, " ", req[i].Proto, "\" ",
                l.status, " ", l.bytes, " ", [seconds4 |-> l.elapsed], "\n">>

\* the status the underlying writer sends: it commits the argument of a
\* first WriteHeader, or 200 at a first Write or when nothing was called
StatusSent(calls) ==
    IF calls = <<>> THEN 200
    ELSE IF calls[1].op = "WriteHeader" THEN calls[1].arg ELSE 200

\* C16 as stated: the logged status is the status the underlying writer sent.
C16_LoggedIsSent ==
    \A i \in Reqs : \A k \in 1..Len(logged[i]) :
        logged[i][k].status = StatusSent(rwCalls[i])

\* C16 as amended: the logged status is the status the underlying writer
\* sent whenever every WriteHeader call after the first call on the writer
\* repeats the status already committed.
C16_LoggedIsSentUnlessReset ==
    \A i \in Reqs : \A k \in 1..Len(logged[i]) :
        (\A j \in 2..Len(proxyCalls[i]) :
            proxyCalls[i][j].op = "WriteHeader" => proxyCalls[i][j].arg = StatusSent(rwCalls[i]))
        => logged[i][k].status = StatusSent(rwCalls[i])

C16_Witness ==
    \E i \in Reqs :
        /\ logged[i] # <<>>
        /\ Len(proxyCalls[i]) = 3
        /\ proxyCalls[i][1].op = "WriteHeader"
        /\ proxyCalls[i][2].op = "Write"
        /\ proxyCalls[i][3].op = "WriteHeader"
        /\ proxyCalls[i][3].arg = proxyCalls[i][1].arg
        /\ logged[i][1].status = proxyCalls[i][1].arg

\* C19: Write changes only responseBytes and WriteHeader only status; ip,
\* port, method, uri and protocol stay as captured from the request when the
\* record was built, and are what the log line shows.
C19_NarrowEffects ==
    /\ [](\A i \in Reqs :
            LET captured(x) ==
                    /\ x.ip = getIP(req[i].RemoteAddr)
                    /\ x.port = getPort(req[i])
                    /\ x.method = req[i].Method
                    /\ x.uri = req[i].RequestURI
                    /\ x.protocol = req[i].Proto
            IN  /\ Started(i) => captured(rec[i])
                /\ \A k \in 1..Len(logged[i]) : captured(logged[i][k]))
    /\ [][\A i \in Reqs :
            Len(proxyCalls'[i]) = Len(proxyCalls[i]) + 1 =>
                IF proxyCalls'[i][Len(proxyCalls'[i])].op = "Write"
                THEN rec'[i] = [rec[i] EXCEPT !.responseBytes = rec'[i].responseBytes]
                ELSE rec'[i] = [rec[i] EXCEPT !.status = rec'[i].status]]_vars

C19_Witness ==
    \E i \in Reqs :
        /\ pc[i] = "done"
        /\ logged[i] # <<>>
        /\ logged[i][1].uri = "/index.html"
        /\ logged[i][1].status = 404
        /\ logged[i][1].bytes = 3
        /\ Len(proxyCalls[i]) = 3

\* C13: when the process ends through an interrupt or through normal
\* shutdown, neither the certificate file nor the key file exists, under
\* every interleaving of the signal goroutine with main; the interrupt path
\* exits with a non-zero code.
C13_NoTempFilesAtExit ==
    /\ procExit.by \in {"interrupt", "normal"} => files = {}
    /\ procExit.by = "interrupt" => procExit.code # 0

\* C14: every failure while producing the TLS material ends the process at
\* once as a fatal error, and no HTTPS listener is started unless both the
\* certificate file and the key file were written.
C14_TLSFailureIsFatal ==
    /\ tlsFail # "none" => procExit.by = "fatal"
    /\ \A p \in HTTPSPorts : lst[p] # "unstarted" => tlsWritten = {"cert", "key"}

\* C15: every port has its own listener task; when a listener fails, its
\* error is reported and the process goes on, and main reaches the final
\* cleanup only after every listener task has returned.
C15_ListenerFailureReported ==
    /\ \A p \in Ports : lst[p] = "returned" =>
          \E m \in printed : m.port = p /\ m.text # "Listening on port"
    /\ mainPc \in {"rmCert", "rmKey", "return"} => \A p \in Ports : lst[p] = "returned"

\* C17: every assignment to randuint, in nextSuffix and in tempFilename's
\* reseed after repeated conflicts, is made while randmu is held.
C17_SeedWrittenUnderLock ==
    \A w \in randWrites : w.held

\* C18: tempFilename ends within 10000 creation attempts, retries on a
\* conflict and reseeds only past 10 conflicts, and the name it returns is
\* that of a file its own exclusive create made.
C18_ReturnsCreatedFile ==
    /\ tI <= MaxAttempts
    /\ tPc = "reseed" => nconflict > ReseedAfter
    /\ tPc = "ret" => tCreated

====
